---- MODULE Spec2Model ----
(***************************************************************************)
(* Session orchestration of the training platform: the three student       *)
(* handlers of src/app.js (start, verify, next), the serialized PVE queue  *)
(* they submit units to, the provisioning and rollback units, and the      *)
(* persistence rows they read and write.                                   *)
(*                                                                         *)
(* A handler invocation is a call record in a slot of `call`.  Every       *)
(* action is one segment of a handler between two points where the         *)
(* handler waits (for the queue, for the hypervisor, for the remote        *)
(* shell), so that overlapping requests interleave as they do under the    *)
(* Node.js event loop.  The reads a handler makes one after the other      *)
(* before its first write (lines 247-253, 378-404, 337-341) are taken in   *)
(* one step.                                                               *)
(*                                                                         *)
(* src/db.js, src/queue.js and src/ssh.js are not part of the sources:     *)
(* the tables, the queue (first in first out, one unit at a time) and the  *)
(* outcomes of a remote command follow the interfaces app.js uses.  The    *)
(* question bank is never empty and does not change.                       *)
(*                                                                         *)
(* waitForTask of src/pve.js, the polling loop every hypervisor task of a  *)
(* unit is waited for with, is modelled step by step on its own (wt,       *)
(* SpecWait); inside a unit only its outcome counts: the task ended OK, or *)
(* the unit fails.  The credentials of the client functions of src/pve.js *)
(* (token header or per-call ticket) are followed in the same way (pve,    *)
(* SpecPve), and so are getVMIP (ipq, SpecIp) and the remote commands of   *)
(* executeScript (sh, SpecSh); inside a handler only the outcome of        *)
(* executeScript counts.                                                   *)
(***************************************************************************)
EXTENDS Integers, Sequences, FiniteSets, TLC

\* ---------------------------------------------------------------- bounds
NumStudents  == 2    \* students that may log in
NumQuestions == 2    \* enabled questions in the bank
MaxCalls     == 2    \* handler invocations in flight at the same time
MaxAttempts  == 2    \* rows of the attempt log
MaxVms       == 2    \* vmids the control plane can still hand out
MaxPollMs    == 3000 \* longest time one task status request takes, in ms
MaxOps       == 2    \* calls of client functions, nested ones included
MaxPolls     == 1    \* "running" answers one task gives before it stops
MaxIfaces    == 2    \* network interfaces the guest agent reports
MaxAddrs     == 2    \* addresses the guest agent reports for one interface
MaxExec      == 2    \* executeScript invocations on the student's VM
MaxClock     == 1    \* milliseconds that go by while they run

Students == 1..NumStudents
Slots    == 1..MaxCalls

\* ------------------------------------------------------------- questions
NoQid  == 0                     \* null current_qid
BadQid == NumQuestions + 1      \* an id without a row

\* id of the question at position i of the ordered list (ids are not positions)
QuestionId(i) == NumQuestions + 1 - i

\* dbHelpers.getQuestions(true): the enabled questions in ordering-key order.
\* Odd positions carry inline scripts, even positions carry script paths.
Questions ==
  [i \in 1..NumQuestions |->
     [id           |-> QuestionId(i),
      fault_script |-> (i % 2 = 1), fault_path |-> (i % 2 = 0),
      check_script |-> (i % 2 = 1), check_path |-> (i % 2 = 0)]]

Qids == {Questions[i].id : i \in 1..NumQuestions}

\* questions.findIndex(q => q.id === qid), 0-based, -1 when absent
FindIndex(qid) ==
  IF \E i \in 1..NumQuestions : Questions[i].id = qid
    THEN (CHOOSE i \in 1..NumQuestions : Questions[i].id = qid) - 1
    ELSE -1

\* questions[idx] for a 0-based idx; id NoQid stands for undefined
QuestionAt(idx) ==
  IF idx + 1 \in 1..NumQuestions THEN Questions[idx + 1].id ELSE NoQid

\* the row of an existing question id
QuestionRow(qid) == Questions[FindIndex(qid) + 1]

\* dbHelpers.getQuestion(qid) finds a row
QuestionExists(qid) == qid \in Qids

\* ------------------------------------------------------------ row shapes
NoIp         == [src |-> "none", vmid |-> 0]
AgentIp(v)   == [src |-> "agent", vmid |-> v]
TemplateIp(v) == [src |-> "template", vmid |-> v]

\* a vmid nothing has been cloned to: power is "absent", then "stopped" once
\* cloneVM returned and "running" once startVM returned; snaps counts the
\* createSnapshot calls that returned; dirty: a fault script has run on it
\* since the snapshot was taken or since the last rollback that returned;
\* clones counts the cloneVM calls that returned this vmid
NoVm == [power |-> "absent", snaps |-> 0, dirty |-> FALSE, clones |-> 0]

\* The client module before it is loaded.  tokenId, tokenSecret, password:
\* the variable is set and not empty; stack: the client functions in
\* progress, the innermost last; nextop: the number of the next call;
\* tickets: tickets handed out; exchanges: POSTs to /access/ticket; held:
\* <<ticket, call>> for every ticket getPVETicket returned to a call; sent:
\* the requests sent with their authentication; res: <<function, outcome>>
\* of the calls that have ended.
NoPve ==
  [loaded |-> FALSE, tokenId |-> FALSE, tokenSecret |-> FALSE,
   password |-> FALSE, stack |-> <<>>, nextop |-> 1, tickets |-> 0,
   exchanges |-> 0, held |-> {}, sent |-> {}, res |-> {}]

\* The getVMIP invocation before it is called.  status: what getVMStatus
\* came to; threw: getVMIP threw; result: the address it returned, <<>> for
\* null
NoQuery ==
  [pc |-> "idle", status |-> [kind |-> "none", ifaces |-> <<>>],
   threw |-> FALSE, result |-> <<>>]

\* One executeScript invocation before it is called.  student: whose
\* connection it is called with; type: scriptType;
\* content, path: scriptContent / scriptPath is given; conn: the connection
\* it was passed; temp: tempPath, type and Date.now(); cmds: the remote
\* commands it has issued; threw: the command whose runSSH rejected; run:
\* exit code of the run step; result: "returned" or the error it throws;
\* value: the exit code it returned
NoExec ==
  [pc |-> "idle", student |-> 0, type |-> "none", content |-> FALSE,
   path |-> FALSE,
   conn |-> NoIp, temp |-> <<>>, cmds |-> <<>>, threw |-> "none",
   run |-> "none", result |-> "none", value |-> "none"]

\* no executeScript called yet; now: Date.now() on the server
NoShell == [now |-> 0, ex |-> [e \in 1..MaxExec |-> NoExec]]

\* One waitForTask invocation.  pc: where it stands; elapsed: Date.now() -
\* startTime in ms; made: elapsed when the latest poll was sent; seen: the
\* task states its polls have observed; result: how it ended.
NoWait ==
  [pc |-> "idle", elapsed |-> 0, made |-> 0, seen |-> {}, result |-> "none"]

NoAssignment == [vmid |-> 0, vm_ip |-> NoIp, snapshot_name |-> "none"]
NoProgress   == [current_qid |-> NoQid, started |-> FALSE]

\* the requests that change a VM: cloneVM, startVM, createSnapshot,
\* rollbackToSnapshot
Mutating == {"clone", "start", "snapshot", "rollback"}

\* One handler invocation.  op, pc: the handler and where it stands; student:
\* req.session.user.id; qid: the question the handler works on (first, next
\* or question_id); cur: Progress.current when the request arrived; vmid, snap:
\* the assignment next() read for its rollback; unit: what became of the unit
\* it submitted; enq: units it submitted; wrote: the qid it passed to
\* updateProgress; conn: the connection it resolved; exec: what executeScript
\* came to; rec: attempt rows it appended; result: its answer; ret:
\* Progress.current when it answered; status: getQuestionStatus of cur when
\* next() arrived; afterOk: a start() of the student had already succeeded;
\* ip: assignment.vm_ip as start() reports it; inject: what inject_output
\* holds; before: the slots whose units were submitted earlier and had not
\* finished when the unit of this call was submitted, less those that have
\* finished since; clean: no fault script had run on the VM since its clean
\* state when the fault script of this call ran; started: Progress.started
\* when the request arrived; sent: the mutating requests the unit of this
\* call has sent to the hypervisor, per kind.
IdleCall ==
  [op |-> "none", pc |-> "idle", student |-> 0, qid |-> NoQid, cur |-> NoQid,
   vmid |-> 0, snap |-> "none", unit |-> "none", enq |-> 0, wrote |-> NoQid,
   conn |-> NoIp, exec |-> "none", rec |-> 0,
   result |-> "none", ret |-> NoQid, status |-> "none", afterOk |-> FALSE,
   ip |-> NoIp, inject |-> "none", before |-> {}, clean |-> TRUE,
   started |-> FALSE, sent |-> [k \in Mutating |-> 0]]

VARIABLES
  cfg,         \* process environment: SSH key and IP template configured or not
  assignment,  \* vm_assignments row of each student
  progress,    \* progress row of each student
  attempts,    \* attempt log
  call,        \* handler invocations, one record per slot
  queue,       \* units waiting in pveQueue (slot of the submitting call)
  running,     \* slot whose unit pveQueue is executing, 0 when idle
  upc,         \* position of the executing unit
  uvm,         \* newVmid of the executing provisioning unit
  uip,         \* vmIp of the executing provisioning unit
  nextid,      \* next free vmid of the control plane
  creates,     \* createVmAssignment executions per student
  startOk,     \* a start() of the student has returned success
  vm,          \* what the hypervisor calls that returned have made of each vmid
  wt,          \* the waitForTask invocation under study
  pve,         \* the hypervisor client: credentials, calls in progress, requests
  ipq,         \* the getVMIP invocation under study
  sh,          \* the executeScript invocations under study and their clock
  last         \* the invocation that answered in the step just taken, as it ended

vars == <<cfg, assignment, progress, attempts, call, queue, running, upc,
          uvm, uip, nextid, creates, startOk, vm, wt, pve, ipq, sh, last>>

dbVars    == <<assignment, progress, attempts>>
queueVars == <<queue, running, upc, uvm, uip>>

Init ==
  /\ cfg \in [sshKey : BOOLEAN, ipTemplate : BOOLEAN]
  /\ assignment = [s \in Students |-> NoAssignment]
  /\ progress = [s \in Students |-> NoProgress]
  /\ attempts = <<>>
  /\ call = [c \in Slots |-> IdleCall]
  /\ queue = <<>>
  /\ running = 0
  /\ upc = "idle"
  /\ uvm = 0
  /\ uip = NoIp
  /\ nextid = 1
  /\ creates = [s \in Students |-> 0]
  /\ startOk = [s \in Students |-> FALSE]
  /\ vm = [v \in 1..MaxVms |-> NoVm]
  /\ wt = NoWait
  /\ pve = NoPve
  /\ ipq = NoQuery
  /\ sh = NoShell
  /\ last = IdleCall

\* ------------------------------------------------------------ persistence
\* dbHelpers.getVmAssignment(studentId) returns a row
HasAssignment(s) == assignment[s].vmid # 0

\* dbHelpers.getQuestionStatus: status of the latest attempt of (s, qid)
AttemptIdx(s, qid) ==
  {i \in 1..Len(attempts) : attempts[i].student = s /\ attempts[i].qid = qid}

Max(S) == CHOOSE x \in S : \A y \in S : y <= x

GetQuestionStatus(s, qid) ==
  IF AttemptIdx(s, qid) = {} THEN "untried"
  ELSE IF attempts[Max(AttemptIdx(s, qid))].passed THEN "passed" ELSE "failed"

\* dbHelpers.recordAttempt appends one row
RecordAttempt(s, qid, passed) ==
  Append(attempts, [student |-> s, qid |-> qid, passed |-> passed])

\* dbHelpers.updateProgress(studentId, qid, started)
UpdateProgress(s, qid, started) ==
  [progress EXCEPT ![s] = [current_qid |-> qid, started |-> started]]

\* ---------------------------------------------------------- call slots
Free(c) == call[c].pc = "idle"

\* a new request takes the lowest free slot
Fresh(c) == Free(c) /\ \A d \in Slots : d < c => ~Free(d)

\* the handler of slot c answers: rec is the invocation as it ends
Return(c, rec) ==
  /\ call' = [call EXCEPT ![c] = IdleCall]
  /\ last' = rec

\* a step in which no handler answers
NoReturn == last' = IdleCall

\* ------------------------------------------------ getStudentVmConn (54-70)
\* a lookup that builds the connection without looking at vm_ip
GetStudentVmConnAnyIp(s) ==
  IF ~HasAssignment(s) THEN NoIp
  ELSE IF ~cfg.sshKey THEN NoIp
  ELSE IF assignment[s].vm_ip = NoIp THEN [src |-> "null", vmid |-> assignment[s].vmid]
  ELSE assignment[s].vm_ip

GetStudentVmConn(s) ==
  IF ~HasAssignment(s) \/ assignment[s].vm_ip = NoIp THEN NoIp
  ELSE IF ~cfg.sshKey THEN NoIp
  ELSE assignment[s].vm_ip

\* -------------------------------------------------- executeScript (73-107)
\* What one executeScript call can come to: "throw" (no connection, no
\* script, or a remote command failed) or the exit code of the run step.
ExecuteScript(conn, hasContent, hasPath) ==
  IF conn = NoIp THEN {"throw"}
  ELSE IF hasContent \/ hasPath THEN {"throw", "0", "1"}
  ELSE {"throw"}


\* ------------------------------------------------------------- pveQueue
\* a queue that puts the newest unit first
QueueAddFirst(c) == <<c>> \o queue

\* pveQueue.add(unit): the unit of call c joins the backlog
QueueAdd(c) == Append(queue, c)

\* the slots whose units have been submitted and have not finished
Unfinished == {d \in Slots : call[d].unit \in {"pending", "running"}}

\* the first request of the unit of call c: cloneVM (258) or
\* rollbackToSnapshot (408)
FirstRequest(c) == IF call[c].op = "start" THEN "clone" ELSE "rollback"

\* where the unit of call c begins: cloneVM asks for the next free id before
\* it sends the clone request (part_001:276); rollbackToSnapshot sends its
\* request at once
FirstStage(c) == IF call[c].op = "start" THEN "nextid" ELSE "rollback"

\* the queue starts the oldest waiting unit when nothing is executing: a
\* provisioning unit asks for the next free id, a rollback unit sends its
\* request
QueueStartUnit ==
  /\ running = 0
  /\ queue # <<>>
  /\ running' = Head(queue)
  /\ queue' = Tail(queue)
  /\ upc' = FirstStage(Head(queue))
  /\ call' = [call EXCEPT ![Head(queue)].unit = "running",
                          ![Head(queue)].sent["rollback"] =
                             IF call[Head(queue)].op = "start" THEN @ ELSE @ + 1]
  /\ UNCHANGED <<cfg, wt, pve, ipq, sh, vm, dbVars, uvm, uip, nextid, creates, startOk>>
  /\ NoReturn

\* the invocation rec answers result
Answer(rec, result) ==
  [rec EXCEPT !.pc = "done", !.result = result,
              !.ret = progress[rec.student].current_qid]

\* a handler that goes on whether the unit returned or threw
SettledIgnoringFailure(c, ok) ==
  [call[c] EXCEPT !.unit = IF ok THEN "ok" ELSE "failed", !.pc = "progress"]

\* `await pveQueue.add(...)` in the handler of slot c: when the unit returned
\* the handler goes on to its progress update; when it threw, add() rejects
\* and the handler's catch answers 500 (324-327, 437-440)
Settled(c, ok) ==
  IF ok THEN [call[c] EXCEPT !.unit = "ok", !.pc = "progress"]
  ELSE Answer([call[c] EXCEPT !.unit = "failed"], "error")

\* a queue whose failed unit also rejects the handles of the units that wait
SettleAllWaiting(c, ok) ==
  /\ call' = [d \in Slots |->
       IF d # c
         THEN IF ~ok /\ call[d].unit = "pending"
                THEN [call[d] EXCEPT !.unit = "failed", !.before = @ \ {c}]
                ELSE [call[d] EXCEPT !.before = @ \ {c}]
       ELSE IF Settled(c, ok).pc = "done" THEN IdleCall ELSE Settled(c, ok)]
  /\ last' = IF Settled(c, ok).pc = "done" THEN Settled(c, ok) ELSE IdleCall

\* the executing unit ends and the handler that awaits it resumes; the
\* calls whose units wait no longer have the unit of c before them
Settle(c, ok) ==
  /\ call' = [d \in Slots |->
       IF d # c THEN [call[d] EXCEPT !.before = @ \ {c}]
       ELSE IF Settled(c, ok).pc = "done" THEN IdleCall ELSE Settled(c, ok)]
  /\ last' = IF Settled(c, ok).pc = "done" THEN Settled(c, ok) ELSE IdleCall

\* a queue that never takes the finished unit off
QueueStuck ==
  /\ running' = running
  /\ upc' = "idle"
  /\ uvm' = 0
  /\ uip' = NoIp

\* the unit has ended, returned or thrown: the queue is free for the next one
QueueIdle ==
  /\ running' = 0
  /\ upc' = "idle"
  /\ uvm' = 0
  /\ uip' = NoIp

\* a client that sends the first request of the unit again when a request
\* or task has failed
UnitFailRetries ==
  /\ running # 0
  /\ upc \in {"nextid", "clone", "startVM", "snapshot", "persist", "rollback"}
  /\ call[running].sent[FirstRequest(running)] <= 2
  /\ call' = [call EXCEPT ![running].sent[FirstRequest(running)] = @ + 1]
  /\ upc' = FirstStage(running)
  /\ uvm' = 0
  /\ uip' = NoIp
  /\ UNCHANGED <<cfg, wt, pve, ipq, sh, vm, dbVars, queue, running, nextid, creates, startOk>>
  /\ NoReturn

\* a request or task of the executing unit fails (request error, failed
\* task, timeout), or createVmAssignment rejects
UnitFail ==
  /\ running # 0
  /\ upc \in {"nextid", "clone", "startVM", "snapshot", "persist", "rollback"}
  /\ Settle(running, FALSE)
  /\ QueueIdle
  /\ UNCHANGED <<cfg, wt, pve, ipq, sh, vm, dbVars, queue, nextid, creates, startOk>>

\* ---------------------------------------- provisioning unit (256-286)
\* a client that remembers the id of its first query
UnitNextIdStale ==
  /\ running # 0 /\ upc = "nextid"
  /\ nextid <= MaxVms
  /\ uvm' = 1
  /\ upc' = "clone"
  /\ call' = [call EXCEPT ![running].sent["clone"] = @ + 1]
  /\ UNCHANGED <<cfg, wt, pve, ipq, sh, vm, dbVars, queue, running, uip, nextid, creates,
                 startOk>>
  /\ NoReturn

\* cloneVM(null, name), part_001:276: getNextVMID returns the id the control
\* plane has free at this moment; the clone request for it is sent (286)
UnitNextId ==
  /\ running # 0 /\ upc = "nextid"
  /\ nextid <= MaxVms
  /\ uvm' = nextid
  /\ upc' = "clone"
  /\ call' = [call EXCEPT ![running].sent["clone"] = @ + 1]
  /\ UNCHANGED <<cfg, wt, pve, ipq, sh, vm, dbVars, queue, running, uip, nextid, creates,
                 startOk>>
  /\ NoReturn

\* the clone task ends OK: the VM of the id that was asked for exists and
\* the id is no longer free; startVM is called
UnitClone ==
  /\ running # 0 /\ upc = "clone"
  /\ upc' = "startVM"
  /\ vm' = [vm EXCEPT ![uvm].power = "stopped", ![uvm].clones = @ + 1]
  /\ nextid' = IF uvm >= nextid THEN uvm + 1 ELSE nextid
  /\ call' = [call EXCEPT ![running].sent["start"] = @ + 1]
  /\ UNCHANGED <<cfg, wt, pve, ipq, sh, dbVars, queue, running, uvm, uip, creates, startOk>>
  /\ NoReturn

\* startVM(newVmid), then the 10 s settle delay
UnitStartVM ==
  /\ running # 0 /\ upc = "startVM"
  /\ upc' = "getIP"
  /\ vm' = [vm EXCEPT ![uvm].power = "running"]
  /\ UNCHANGED <<cfg, wt, pve, ipq, sh, dbVars, call, queue, running, uvm, uip, nextid, creates, startOk>>
  /\ NoReturn

\* an address resolution that never falls back to the template
ResolveIpAgentOnly(agentIp, v) == agentIp

\* vmIp of lines 267-273 for what getVMIP returned
ResolveIp(agentIp, v) ==
  IF agentIp # NoIp THEN agentIp
  ELSE IF cfg.ipTemplate THEN TemplateIp(v) ELSE NoIp

\* getVMIP(newVmid) returns the agent's address or null, never throws;
\* createSnapshot is called
UnitGetIP ==
  /\ running # 0 /\ upc = "getIP"
  /\ \E agentIp \in {AgentIp(uvm), NoIp} : uip' = ResolveIp(agentIp, uvm)
  /\ upc' = "snapshot"
  /\ call' = [call EXCEPT ![running].sent["snapshot"] = @ + 1]
  /\ UNCHANGED <<cfg, wt, pve, ipq, sh, vm, dbVars, queue, running, uvm, nextid, creates, startOk>>
  /\ NoReturn

\* createSnapshot(newVmid, 'clean_start')
UnitSnapshot ==
  /\ running # 0 /\ upc = "snapshot"
  /\ upc' = "persist"
  /\ vm' = [vm EXCEPT ![uvm].snaps = @ + 1]
  /\ UNCHANGED <<cfg, wt, pve, ipq, sh, dbVars, call, queue, running, uvm, uip, nextid, creates, startOk>>
  /\ NoReturn

\* a persist step that overwrites the row the student already has
UnitPersistReplace ==
  /\ running # 0 /\ upc = "persist"
  /\ LET s == call[running].student IN
       /\ creates' = [creates EXCEPT ![s] = @ + 1]
       /\ Settle(running, TRUE)
       /\ assignment' = [assignment EXCEPT ![s] =
            [vmid |-> uvm, vm_ip |-> uip, snapshot_name |-> "clean_start"]]
  /\ QueueIdle
  /\ UNCHANGED <<cfg, wt, pve, ipq, sh, vm, progress, attempts, queue, nextid, startOk>>

\* a unit that ends without writing the row
UnitPersistSkipped ==
  /\ running # 0 /\ upc = "persist"
  /\ creates' = [creates EXCEPT ![call[running].student] = @ + 1]
  /\ Settle(running, TRUE)
  /\ QueueIdle
  /\ UNCHANGED <<cfg, wt, pve, ipq, sh, vm, assignment, progress, attempts, queue,
                 nextid, startOk>>

\* dbHelpers.createVmAssignment: the student id is the unique key of the
\* row, a second insert for the same student is refused
UnitPersist ==
  /\ running # 0 /\ upc = "persist"
  /\ LET s == call[running].student IN
       /\ creates' = [creates EXCEPT ![s] = @ + 1]
       /\ IF HasAssignment(s)
            THEN /\ Settle(running, FALSE)
                 /\ UNCHANGED assignment
            ELSE /\ Settle(running, TRUE)
                 /\ assignment' = [assignment EXCEPT ![s] =
                      [vmid |-> uvm, vm_ip |-> uip, snapshot_name |-> "clean_start"]]
  /\ QueueIdle
  /\ UNCHANGED <<cfg, wt, pve, ipq, sh, vm, progress, attempts, queue, nextid, startOk>>

\* ------------------------------------------------ rollback unit (407-409)
\* a reset that takes clean_start again once it has rolled back
UnitRollbackResnapshot ==
  /\ running # 0 /\ upc = "rollback"
  /\ Settle(running, TRUE)
  /\ QueueIdle
  /\ vm' = [vm EXCEPT ![call[running].vmid].snaps = @ + 1,
                      ![call[running].vmid].dirty = FALSE]
  /\ UNCHANGED <<cfg, wt, pve, ipq, sh, dbVars, queue, nextid, creates, startOk>>

\* rollbackToSnapshot(assignment.vmid, assignment.snapshot_name) ends OK
UnitRollback ==
  /\ running # 0 /\ upc = "rollback"
  /\ Settle(running, TRUE)
  /\ QueueIdle
  /\ vm' = [vm EXCEPT ![call[running].vmid].dirty = FALSE]
  /\ UNCHANGED <<cfg, wt, pve, ipq, sh, dbVars, queue, nextid, creates, startOk>>

\* =========================================================== handlers
\* a request arrives: the record of a new invocation of handler op by s
NewCall(op, s) ==
  [IdleCall EXCEPT !.op = op, !.student = s,
                   !.cur = progress[s].current_qid, !.afterOk = startOk[s],
                   !.started = progress[s].started]

\* ------------------------------------- POST /api/student/start (241-328)
\* start() that provisions whether or not a row exists
NeedsProvisionAlways(s) == TRUE

\* line 249: no row for the student, a VM has to be provisioned
NeedsProvision(s) == ~HasAssignment(s)

\* lines 243-256: read the assignment; submit the provisioning unit and wait
\* for it, or go straight to the progress update
StartBegin(c, s) ==
  /\ Fresh(c)
  /\ IF NeedsProvision(s)
       THEN /\ call' = [call EXCEPT ![c] =
                 [NewCall("start", s) EXCEPT !.qid = QuestionAt(0), !.pc = "waitUnit",
                                             !.unit = "pending", !.enq = 1,
                                             !.before = Unfinished]]
            /\ queue' = QueueAdd(c)
       ELSE /\ call' = [call EXCEPT ![c] =
                 [NewCall("start", s) EXCEPT !.qid = QuestionAt(0), !.pc = "progress"]]
            /\ UNCHANGED queue
  /\ UNCHANGED <<cfg, wt, pve, ipq, sh, vm, dbVars, running, upc, uvm, uip, nextid, creates, startOk>>
  /\ NoReturn

\* lines 288-296: updateProgress(studentId, first.id, true)
StartProgress(c) ==
  /\ call[c].op = "start" /\ call[c].pc = "progress"
  /\ progress' = UpdateProgress(call[c].student, call[c].qid, TRUE)
  /\ call' = [call EXCEPT ![c].pc = "inject", ![c].wrote = call[c].qid,
                          ![c].vmid = assignment[call[c].student].vmid,
                          ![c].ip = assignment[call[c].student].vm_ip]
  /\ UNCHANGED <<cfg, wt, pve, ipq, sh, vm, assignment, attempts, queueVars, nextid, creates, startOk>>
  /\ NoReturn

\* lines 299-312 and 415-428: the fault of question qid is injected when a
\* connection resolves; a failure only becomes the warning text
InjectOutcomes(s, qid) ==
  IF GetStudentVmConn(s) = NoIp THEN {"none"}
  ELSE ExecuteScript(GetStudentVmConn(s), QuestionRow(qid).fault_script,
                     QuestionRow(qid).fault_path)

\* an injection whose failure goes to the handler's outer catch
InjectResultFatal(out) == IF out \in {"none", "throw"} THEN "error" ELSE "ok"

\* lines 302-311, 314 and 418-427, 430: a failed injection is caught and the
\* handler answers ok: true all the same
InjectResult(out) == "ok"

\* lines 300-312 and 416-428: what inject_output holds: the script's output,
\* the text of the caught failure, or the warning that nothing was run
InjectOutput(conn, out) ==
  IF conn = NoIp THEN "warning"
  ELSE IF out = "throw" THEN "failed" ELSE "output"

\* the invocation rec as it ends after its injection came to out over conn
Injected(rec, conn, out) ==
  Answer([rec EXCEPT !.exec = out, !.conn = conn,
                     !.inject = InjectOutput(conn, out),
                     !.clean = IF out \in {"0", "1"} THEN ~vm[conn.vmid].dirty
                               ELSE TRUE], InjectResult(out))

\* the VMs after the fault script sent over conn came to out: a script that
\* ran to its exit code has changed the VM it ran on
FaultRan(conn, out) ==
  IF out \in {"0", "1"} THEN [vm EXCEPT ![conn.vmid].dirty = TRUE] ELSE vm

\* lines 299-323: inject the first fault and answer ok
StartInject(c) ==
  /\ call[c].op = "start" /\ call[c].pc = "inject"
  /\ \E out \in InjectOutcomes(call[c].student, call[c].qid) :
       /\ Return(c, Injected(call[c], GetStudentVmConn(call[c].student), out))
       /\ vm' = FaultRan(GetStudentVmConn(call[c].student), out)
       /\ startOk' = [startOk EXCEPT ![call[c].student] =
                        @ \/ InjectResult(out) = "ok"]
  /\ UNCHANGED <<cfg, wt, pve, ipq, sh, dbVars, queueVars, nextid, creates>>

\* ------------------------------------ POST /api/student/verify (331-372)
\* passed for every script that ran, whatever its exit code
PassedWheneverRan(out) == out \in {"0", "1"}

\* line 354: passed = (r.code === 0)
Passed(out) == out = "0"

\* verify calls that have not recorded their attempt yet
VerifyPending == {d \in Slots : call[d].op = "verify" /\ call[d].pc = "check"}

\* verify that records nothing when the executor throws
VerifyRecordUnlessThrown(s, q, out) ==
  IF out = "throw" THEN attempts
  ELSE RecordAttempt(s, q, IF out = "none" THEN FALSE ELSE Passed(out))

\* verify that keeps one row per student and question and overwrites it
VerifyRecordUpsert(s, q, out) ==
  IF AttemptIdx(s, q) = {}
    THEN RecordAttempt(s, q, IF out \in {"none", "throw"} THEN FALSE ELSE Passed(out))
    ELSE [attempts EXCEPT ![Max(AttemptIdx(s, q))].passed =
            IF out \in {"none", "throw"} THEN FALSE ELSE Passed(out)]

\* lines 343, 354-358, 366: the attempt log after verify recorded the
\* outcome out of the check ("none": no connection, the script was not run)
VerifyRecord(s, q, out) ==
  RecordAttempt(s, q, IF out \in {"none", "throw"} THEN FALSE ELSE Passed(out))

\* verify that makes the verified question the current one
VerifyProgressMoves(s, q, out) == [current_qid |-> q, started |-> TRUE]

\* lines 331-372: verify has no updateProgress, the row stays as it is
VerifyProgress(s, q, out) == progress[s]

\* lines 344-348, 360-364, 367: what verify answers for the outcome out
VerifyResult(out) == IF out = "throw" THEN "error" ELSE "ok"

\* lines 333-349: look the question up, resolve the connection; without a
\* connection a failed attempt is recorded and the answer is passed=false
VerifyBegin(c, s, q) ==
  /\ Fresh(c)
  /\ Len(attempts) + Cardinality(VerifyPending) < MaxAttempts
  /\ IF ~QuestionExists(q)
       THEN /\ UNCHANGED <<attempts, progress>>
            /\ Return(c, Answer([NewCall("verify", s) EXCEPT !.qid = q], "notfound"))
       ELSE IF GetStudentVmConn(s) = NoIp
       THEN /\ attempts' = VerifyRecord(s, q, "none")
            /\ progress' = [progress EXCEPT ![s] = VerifyProgress(s, q, "none")]
            /\ Return(c, Answer([NewCall("verify", s) EXCEPT !.qid = q,
                                    !.rec = Len(attempts') - Len(attempts)],
                                VerifyResult("none")))
       ELSE /\ call' = [call EXCEPT ![c] =
                 [NewCall("verify", s) EXCEPT !.qid = q, !.pc = "check",
                                              !.conn = GetStudentVmConn(s)]]
            /\ UNCHANGED <<attempts, progress>>
            /\ NoReturn
  /\ UNCHANGED <<cfg, wt, pve, ipq, sh, vm, assignment, queueVars, nextid, creates, startOk>>

\* a verify whose check script waits until the queue has nothing to do
VerifyRunWhenQueueIdle(c) ==
  /\ call[c].op = "verify" /\ call[c].pc = "check"
  /\ running = 0 /\ queue = <<>>
  /\ \E out \in ExecuteScript(call[c].conn, QuestionRow(call[c].qid).check_script,
                              QuestionRow(call[c].qid).check_path) :
       /\ attempts' = VerifyRecord(call[c].student, call[c].qid, out)
       /\ progress' = [progress EXCEPT ![call[c].student] =
                         VerifyProgress(call[c].student, call[c].qid, out)]
       /\ Return(c, Answer([call[c] EXCEPT !.exec = out,
                               !.rec = Len(attempts') - Len(attempts)],
                           VerifyResult(out)))
  /\ UNCHANGED <<cfg, wt, pve, ipq, sh, vm, assignment, queueVars, nextid, creates, startOk>>

\* lines 351-368: run the check script, record the attempt, answer
VerifyRun(c) ==
  /\ call[c].op = "verify" /\ call[c].pc = "check"
  /\ \E out \in ExecuteScript(call[c].conn, QuestionRow(call[c].qid).check_script,
                              QuestionRow(call[c].qid).check_path) :
       /\ attempts' = VerifyRecord(call[c].student, call[c].qid, out)
       /\ progress' = [progress EXCEPT ![call[c].student] =
                         VerifyProgress(call[c].student, call[c].qid, out)]
       /\ Return(c, Answer([call[c] EXCEPT !.exec = out,
                               !.rec = Len(attempts') - Len(attempts)],
                           VerifyResult(out)))
  /\ UNCHANGED <<cfg, wt, pve, ipq, sh, vm, assignment, queueVars, nextid, creates, startOk>>

\* -------------------------------------- POST /api/student/next (375-441)
\* a lookup that wraps around to the first question after the last one
NextQuestionWrapping(qid) ==
  IF QuestionAt(FindIndex(qid) + 1) = NoQid THEN QuestionAt(0)
  ELSE QuestionAt(FindIndex(qid) + 1)

\* lines 385-386: the question after qid in the ordered list, NoQid when none
NextQuestion(qid) == QuestionAt(FindIndex(qid) + 1)

\* a next() that does not ask for a passed attempt
NextDecisionUnchecked(s) ==
  IF ~progress[s].started THEN "notStarted"
  ELSE IF NextQuestion(progress[s].current_qid) = NoQid THEN "done"
  ELSE IF ~HasAssignment(s) THEN "noVm"
  ELSE "go"

\* a next() that does not look at Progress.started
NextDecisionUnstarted(s) ==
  IF NextQuestion(progress[s].current_qid) = NoQid THEN "done"
  ELSE IF GetQuestionStatus(s, progress[s].current_qid) # "passed" THEN "notPassed"
  ELSE IF ~HasAssignment(s) THEN "noVm"
  ELSE "go"

\* lines 378-404: the answer next() gives before it touches the VM, "go" when
\* it goes on to the rollback
NextDecision(s) ==
  IF ~progress[s].started THEN "notStarted"
  ELSE IF NextQuestion(progress[s].current_qid) = NoQid THEN "done"
  ELSE IF GetQuestionStatus(s, progress[s].current_qid) # "passed" THEN "notPassed"
  ELSE IF ~HasAssignment(s) THEN "noVm"
  ELSE "go"

\* a next() that rolls back by itself instead of submitting a unit
NextBeginUnqueued(c, s) ==
  /\ Fresh(c)
  /\ LET new == [NewCall("next", s) EXCEPT
                   !.status = GetQuestionStatus(s, progress[s].current_qid)] IN
     IF NextDecision(s) = "go"
       THEN /\ call' = [call EXCEPT ![c] =
                 [new EXCEPT !.qid = NextQuestion(progress[s].current_qid),
                             !.vmid = assignment[s].vmid,
                             !.snap = assignment[s].snapshot_name,
                             !.pc = "waitUnit", !.unit = "running"]]
            /\ NoReturn
       ELSE Return(c, Answer(new, NextDecision(s)))
  /\ UNCHANGED <<cfg, wt, pve, ipq, sh, vm, dbVars, queueVars, nextid, creates, startOk>>

\* lines 377-409: the checks, then the rollback unit is submitted
NextBegin(c, s) ==
  /\ Fresh(c)
  /\ LET new == [NewCall("next", s) EXCEPT
                   !.status = GetQuestionStatus(s, progress[s].current_qid)] IN
     IF NextDecision(s) = "go"
       THEN /\ call' = [call EXCEPT ![c] =
                 [new EXCEPT !.qid = NextQuestion(progress[s].current_qid),
                             !.vmid = assignment[s].vmid,
                             !.snap = assignment[s].snapshot_name,
                             !.pc = "waitUnit", !.unit = "pending", !.enq = 1,
                             !.before = Unfinished]]
            /\ queue' = QueueAdd(c)
            /\ NoReturn
       ELSE /\ Return(c, Answer(new, NextDecision(s)))
            /\ UNCHANGED queue
  /\ UNCHANGED <<cfg, wt, pve, ipq, sh, vm, dbVars, running, upc, uvm, uip, nextid, creates, startOk>>

\* line 412: updateProgress(studentId, next.id, true)
NextProgress(c) ==
  /\ call[c].op = "next" /\ call[c].pc = "progress"
  /\ progress' = UpdateProgress(call[c].student, call[c].qid, TRUE)
  /\ call' = [call EXCEPT ![c].pc = "inject", ![c].wrote = call[c].qid]
  /\ UNCHANGED <<cfg, wt, pve, ipq, sh, vm, assignment, attempts, queueVars, nextid, creates, startOk>>
  /\ NoReturn

\* lines 415-436: inject the next fault and answer ok, done=false
NextInject(c) ==
  /\ call[c].op = "next" /\ call[c].pc = "inject"
  /\ \E out \in InjectOutcomes(call[c].student, call[c].qid) :
       /\ Return(c, Injected(call[c], GetStudentVmConn(call[c].student), out))
       /\ vm' = FaultRan(GetStudentVmConn(call[c].student), out)
  /\ UNCHANGED <<cfg, wt, pve, ipq, sh, dbVars, queueVars, nextid, creates, startOk>>

\* ==================================================================
\* the requests the students of S may send
Requests(S) ==
  \/ \E c \in Slots, s \in S : StartBegin(c, s)
  \/ \E c \in Slots, s \in S, q \in Qids \cup {BadQid} : VerifyBegin(c, s, q)
  \/ \E c \in Slots, s \in S : NextBegin(c, s)

\* what the handlers in flight, the queue and the executing unit do next
Steps ==
  \/ \E c \in Slots : StartProgress(c)
  \/ \E c \in Slots : StartInject(c)
  \/ \E c \in Slots : VerifyRun(c)
  \/ \E c \in Slots : NextProgress(c)
  \/ \E c \in Slots : NextInject(c)
  \/ QueueStartUnit
  \/ UnitNextId
  \/ UnitClone
  \/ UnitStartVM
  \/ UnitGetIP
  \/ UnitSnapshot
  \/ UnitPersist
  \/ UnitRollback
  \/ UnitFail

Next == Requests(Students) \/ Steps

Spec == Init /\ [][Next]_vars

\* the session of one student: only student 1 sends requests, and any
\* number of them may overlap
NextSession == Requests({1}) \/ Steps

SpecSession == Init /\ [][NextSession]_vars

\* two students share the queue, in the deployment with an SSH key and no
\* IP template: student 1 goes through the whole session while student 2
\* starts training
InitShared == Init /\ cfg = [sshKey |-> TRUE, ipTemplate |-> FALSE]

NextShared ==
  \/ Requests({1})
  \/ \E c \in Slots : StartBegin(c, 2)
  \/ Steps

SpecShared == InitShared /\ [][NextShared]_vars

\* the same deployment when student 2 also asks for the next question, with
\* no attempt of their own in the log
NextPair ==
  \/ NextShared
  \/ \E c \in Slots : NextBegin(c, 2)

SpecPair == InitShared /\ [][NextPair]_vars

\* a step of the unit pveQueue is executing
UnitStep ==
  \/ UnitNextId \/ UnitClone \/ UnitStartVM \/ UnitGetIP \/ UnitSnapshot \/ UnitPersist
  \/ UnitRollback \/ UnitFail

\* the shared deployment with the requests that lead to units: both students
\* start, student 1 verifies the first question and asks for the next one
NextQueue ==
  \/ \E c \in Slots : StartBegin(c, 1)
  \/ \E c \in Slots : VerifyBegin(c, 1, QuestionAt(0))
  \/ \E c \in Slots : NextBegin(c, 1)
  \/ \E c \in Slots : StartBegin(c, 2)
  \/ Steps

SpecQueue == InitShared /\ [][NextQueue]_vars

\* every unit terminates, and the queue goes on to the next one
SpecSharedFair == SpecQueue /\ WF_vars(QueueStartUnit) /\ WF_vars(UnitStep)

\* ============================================== waitForTask (pve.js)
\* the budget of waitForTask and the pause between two polls, in ms
timeout      == 300000
PollInterval == 2000

\* what a task status request can come to: the task still runs, it stopped
\* with exitstatus OK, it stopped with another exitstatus, or pveRequest throws
PollResults == {"running", "OK", "ERROR", "throw"}

\* the time a task status request takes
PollTimes == {0, MaxPollMs}

waitVars == <<cfg, dbVars, call, queueVars, nextid, creates, startOk, vm, pve,
              ipq, sh, last>>

\* the loop test: Date.now() - startTime < timeout
BudgetLeft(elapsed) == elapsed < timeout

\* a wait that returns true for every stopped task
WaitOutcomeAnyStopped(o) ==
  IF o \in {"OK", "ERROR"} THEN "true"
  ELSE IF o = "throw" THEN "RequestError" ELSE "none"

\* a wait that only looks for exitstatus OK
WaitOutcomeOnlyOk(o) ==
  IF o = "OK" THEN "true"
  ELSE IF o = "throw" THEN "RequestError" ELSE "none"

\* how the loop body ends for the poll result o: it returns true, throws
\* (the task failed, or the request did), or goes on to the pause ("none")
WaitOutcome(o) ==
  IF o = "OK" THEN "true"
  ELSE IF o = "ERROR" THEN "TaskFailed"
  ELSE IF o = "throw" THEN "RequestError"
  ELSE "none"

\* waitForTask is called: startTime = Date.now()
WaitForTask ==
  /\ wt.pc = "idle"
  /\ wt' = [NoWait EXCEPT !.pc = "test"]
  /\ UNCHANGED waitVars

\* the loop test; when it fails the function throws the timeout error
WaitTest ==
  /\ wt.pc = "test"
  /\ wt' = IF BudgetLeft(wt.elapsed)
             THEN [wt EXCEPT !.pc = "poll", !.made = wt.elapsed]
             ELSE [wt EXCEPT !.pc = "done", !.result = "TaskTimeout"]
  /\ UNCHANGED waitVars

\* the status request comes back after d ms with the result o
WaitPoll ==
  /\ wt.pc = "poll"
  /\ \E d \in PollTimes, o \in PollResults :
       wt' = [wt EXCEPT !.elapsed = @ + d,
                        !.seen = @ \cup ({o} \ {"throw"}),
                        !.pc = IF WaitOutcome(o) = "none" THEN "sleep" ELSE "done",
                        !.result = WaitOutcome(o)]
  /\ UNCHANGED waitVars

\* the pause before the next test (a timer that fires late is counted in
\* the time of the request that follows)
WaitSleep ==
  /\ wt.pc = "sleep"
  /\ wt' = [wt EXCEPT !.elapsed = @ + PollInterval, !.pc = "test"]
  /\ UNCHANGED waitVars

NextWait == WaitForTask \/ WaitTest \/ WaitPoll \/ WaitSleep

SpecWait == Init /\ [][NextWait]_vars

\* every request and every timer of the invocation comes back
SpecWaitFair == SpecWait /\ WF_vars(NextWait)

\* ============================================= the client's credentials
\* (part_001, 177-445) The functions of the hypervisor client are followed
\* on their own: which credential each request carries.
pveVars == <<cfg, dbVars, call, queueVars, nextid, creates, startOk, vm, wt,
             ipq, sh, last>>

\* the exported functions; getNextVMID and stopVM are also called by
\* cloneVM and destroyVM
ClientOps ==
  {"clone", "snapshot", "rollback", "start", "stop", "destroy", "status",
   "nextid", "ip", "check"}

\* the functions that wait for the task their request started
HasTask(op) == op \in {"clone", "snapshot", "rollback", "start", "stop"}

\* line 190: USE_PVE_TOKEN = Boolean(tokenId && tokenSecret)
USE_PVE_TOKEN == pve.tokenId /\ pve.tokenSecret

\* the function a call of op calls before its own request: getNextVMID for
\* a clone without a vmid (276), stopVM (386), getVMStatus (414)
ChildOf(op, given) ==
  IF op = "clone" /\ ~given THEN "nextid"
  ELSE IF op = "destroy" THEN "stop"
  ELSE IF op = "ip" THEN "status"
  ELSE "none"

\* the innermost function in progress
Top == pve.stack[Len(pve.stack)]

\* one call of a client function; child: how the function it called before
\* its own request ended
Frame(id, op, given) ==
  [id |-> id, op |-> op, given |-> given, ticket |-> 0, polls |-> 0,
   child |-> "none", pc |-> IF op = "ip" THEN "child" ELSE "ticket"]

\* lines 177-190: the module is loaded with the environment of the process
LoadConfig(tokenId, tokenSecret, password) ==
  /\ ~pve.loaded
  /\ pve' = [pve EXCEPT !.loaded = TRUE, !.tokenId = tokenId,
                         !.tokenSecret = tokenSecret, !.password = password]
  /\ UNCHANGED pveVars

\* a caller calls an exported function; given: cloneVM is passed a vmid
ClientCall(op, given) ==
  /\ pve.loaded /\ pve.stack = <<>>
  /\ given => op = "clone"
  /\ pve.nextop + (IF ChildOf(op, given) = "none" THEN 0 ELSE 1) <= MaxOps
  /\ pve' = [pve EXCEPT !.stack = <<Frame(pve.nextop, op, given)>>,
                         !.nextop = @ + 1]
  /\ UNCHANGED pveVars

\* a destroyVM that gives up when stopVM throws
EndedStopFatal(p, r) ==
  LET f == Top
      own == IF f.op = "check" /\ r # "ok" THEN "notOk" ELSE r
      rest == SubSeq(p.stack, 1, Len(p.stack) - 1) IN
  IF rest = <<>>
    THEN [p EXCEPT !.stack = <<>>, !.res = @ \cup {<<f.op, own>>}]
  ELSE LET par == rest[Len(rest)] IN
    IF par.op \in {"destroy", "clone"} /\ r = "ok"
      THEN [p EXCEPT !.stack = <<[par EXCEPT !.pc = "request", !.child = r]>>,
                     !.res = @ \cup {<<f.op, r>>}]
    ELSE IF par.op = "ip"
      THEN [p EXCEPT !.stack = <<>>,
                     !.res = @ \cup {<<f.op, r>>,
                                     <<"ip", IF r = "ok" THEN "ok" ELSE "null">>}]
    ELSE [p EXCEPT !.stack = <<>>,
                   !.res = @ \cup {<<f.op, r>>, <<par.op, r>>}]

\* the client p once its innermost function has ended with outcome r ("ok"
\* or the error it throws): cloneVM goes on after getNextVMID returned and
\* throws what it threw; destroyVM ignores what stopVM threw (385-389);
\* getVMIP returns null when getVMStatus threw (431-434);
\* checkPVEConnection returns ok: false for an error (442-444)
Ended(p, r) ==
  LET f == Top
      own == IF f.op = "check" /\ r # "ok" THEN "notOk" ELSE r
      rest == SubSeq(p.stack, 1, Len(p.stack) - 1) IN
  IF rest = <<>>
    THEN [p EXCEPT !.stack = <<>>, !.res = @ \cup {<<f.op, own>>}]
  ELSE LET par == rest[Len(rest)] IN
    IF par.op = "destroy" \/ (par.op = "clone" /\ r = "ok")
      THEN [p EXCEPT !.stack = <<[par EXCEPT !.pc = "request", !.child = r]>>,
                     !.res = @ \cup {<<f.op, r>>}]
    ELSE IF par.op = "ip"
      THEN [p EXCEPT !.stack = <<>>,
                     !.res = @ \cup {<<f.op, r>>,
                                     <<"ip", IF r = "ok" THEN "ok" ELSE "null">>}]
    ELSE [p EXCEPT !.stack = <<>>,
                   !.res = @ \cup {<<f.op, r>>, <<par.op, r>>}]

\* the client p once its innermost function has its credential: it calls
\* the function it needs first, or sends its request; checkPVEConnection
\* has nothing more to do (438-441)
Credentialed(p) ==
  IF Top.op = "check" THEN Ended(p, "ok")
  ELSE [p EXCEPT !.stack[Len(p.stack)].pc =
          IF ChildOf(Top.op, Top.given) # "none" THEN "child" ELSE "request"]

\* the client after one POST to /access/ticket that answered with a ticket
\* for the innermost function: a ticket not handed out before
Exchanged ==
  [pve EXCEPT !.exchanges = @ + 1, !.tickets = @ + 1,
              !.held = @ \cup {<<pve.tickets + 1, Top.id>>},
              !.stack[Len(pve.stack)].ticket = pve.tickets + 1]

\* a client that keeps the ticket of the latest exchange and hands it out
\* again
GetPVETicketCached ==
  /\ pve.stack # <<>> /\ Top.pc = "ticket"
  /\ IF USE_PVE_TOKEN THEN pve' = Credentialed(pve)
     ELSE IF ~pve.password THEN pve' = Ended(pve, "authError")
     ELSE IF pve.tickets > 0
       THEN pve' = Credentialed([pve EXCEPT
                     !.stack[Len(pve.stack)].ticket = pve.tickets])
     ELSE \E ok \in BOOLEAN :
            pve' = IF ok THEN Credentialed(Exchanged)
                   ELSE Ended([pve EXCEPT !.exchanges = @ + 1], "authError")
  /\ UNCHANGED pveVars

\* lines 193-227, getPVETicket as the first statement of a function: null
\* with a token; an error before any request without a password; else one
\* POST to /access/ticket, which answers with a ticket or fails
GetPVETicket ==
  /\ pve.stack # <<>> /\ Top.pc = "ticket"
  /\ IF USE_PVE_TOKEN THEN pve' = Credentialed(pve)
     ELSE IF ~pve.password THEN pve' = Ended(pve, "authError")
     ELSE \E ok \in BOOLEAN :
            pve' = IF ok THEN Credentialed(Exchanged)
                   ELSE Ended([pve EXCEPT !.exchanges = @ + 1], "authError")
  /\ UNCHANGED pveVars

\* the function calls the one it needs before its own request
CallNested ==
  /\ pve.stack # <<>> /\ Top.pc = "child"
  /\ pve' = [pve EXCEPT
       !.stack = <<[Top EXCEPT !.pc = "waitChild"],
                   Frame(pve.nextop, ChildOf(Top.op, Top.given), FALSE)>>,
       !.nextop = @ + 1]
  /\ UNCHANGED pveVars

\* lines 243-250: the credential pveRequest puts on a request made with
\* ticket: the token header, else the cookie of the ticket it was passed
\* (every function passes the one it got from getPVETicket)
RequestAuth(ticket) ==
  IF USE_PVE_TOKEN THEN [header |-> "Authorization", ticket |-> 0]
  ELSE [header |-> "Cookie", ticket |-> ticket]

\* the client once the innermost function has sent a request of kind
Sent(kind) ==
  [pve EXCEPT !.sent = @ \cup {[op |-> Top.id, kind |-> kind,
                                auth |-> RequestAuth(Top.ticket)]}]

\* lines 230-264: the function sends its request; it fails or answers
PveRequest ==
  /\ pve.stack # <<>> /\ Top.pc = "request"
  /\ \E ok \in BOOLEAN :
       pve' = IF ~ok THEN Ended(Sent(Top.op), "requestError")
              ELSE IF HasTask(Top.op)
                THEN [Sent(Top.op) EXCEPT !.stack[Len(pve.stack)].pc = "poll"]
              ELSE Ended(Sent(Top.op), "ok")
  /\ UNCHANGED pveVars

\* lines 299-318: waitForTask(taskId, ticket) asks for the state of the task
\* with the ticket of the function that started it, until the task has
\* stopped, the request fails or the time is up
TaskPoll ==
  /\ pve.stack # <<>> /\ Top.pc = "poll"
  /\ \E o \in PollResults :
       pve' = IF o = "running" /\ Top.polls < MaxPolls
                THEN [Sent("task") EXCEPT !.stack[Len(pve.stack)].polls = @ + 1]
              ELSE Ended(Sent("task"),
                         CASE o = "OK" -> "ok"
                           [] o = "ERROR" -> "taskFailed"
                           [] o = "running" -> "taskTimeout"
                           [] OTHER -> "requestError")
  /\ UNCHANGED pveVars

NextPve ==
  \/ \E tokenId \in BOOLEAN, tokenSecret \in BOOLEAN, password \in BOOLEAN :
        LoadConfig(tokenId, tokenSecret, password)
  \/ \E op \in ClientOps, given \in BOOLEAN : ClientCall(op, given)
  \/ GetPVETicket
  \/ CallNested
  \/ PveRequest
  \/ TaskPoll

SpecPve == InitShared /\ [][NextPve]_vars

\* ================================================== getVMIP (412-435)
ipVars == <<cfg, dbVars, call, queueVars, nextid, creates, startOk, vm, wt,
            pve, sh, last>>

\* An address is its ip-address-type and its ip-address, the latter as the
\* numbers between the dots.
Loopback == <<127, 0, 0, 1>>

Addresses ==
  {[type |-> "ipv4", addr |-> Loopback],
   [type |-> "ipv4", addr |-> <<10, 0, 0, 5>>],
   [type |-> "ipv4", addr |-> <<10, 0, 0, 6>>],
   [type |-> "ipv6", addr |-> <<65152, 0, 0, 1>>]}

\* the sequences over S of length at most n
SeqUpTo(S, n) == UNION {[1..k -> S] : k \in 0..n}

\* an interface: whether it has ip-addresses, and these
Interfaces ==
  {[has |-> FALSE, addrs |-> <<>>]}
    \cup {[has |-> TRUE, addrs |-> a] : a \in SeqUpTo(Addresses, MaxAddrs)}

\* what getVMStatus comes to when it returns no agent data: it throws, or
\* the status has no agent, or the agent has no network-interfaces
NoData == {"throw", "noAgent", "noInterfaces"}

\* ip['ip-address'].startsWith('127.')
StartsWith127(addr) == addr[1] = 127

\* a test that takes every ipv4 address
EligibleAnyIpv4(a) == a.type = "ipv4"

\* line 421: ipv4 and not a 127. address
Eligible(a) == a.type = "ipv4" /\ ~StartsWith127(a.addr)

\* lines 420-424: the inner loop from address j on; <<>> when it falls
\* through
RECURSIVE FirstOfAddrs(_, _)
FirstOfAddrs(addrs, j) ==
  IF j > Len(addrs) THEN <<>>
  ELSE IF Eligible(addrs[j]) THEN addrs[j].addr
  ELSE FirstOfAddrs(addrs, j + 1)

\* lines 417-427: the outer loop from interface i on; an interface without
\* ip-addresses, or with none, is passed over (line 419)
RECURSIVE FirstOfIfaces(_, _)
FirstOfIfaces(ifs, i) ==
  IF i > Len(ifs) THEN <<>>
  ELSE IF ~ifs[i].has \/ Len(ifs[i].addrs) = 0 THEN FirstOfIfaces(ifs, i + 1)
  ELSE IF FirstOfAddrs(ifs[i].addrs, 1) # <<>> THEN FirstOfAddrs(ifs[i].addrs, 1)
  ELSE FirstOfIfaces(ifs, i + 1)

\* lines 412-435: what getVMIP returns for what getVMStatus came to; the
\* catch of line 431 turns a throw of getVMStatus into null, the test of
\* line 416 skips the loops, line 430 returns null after them
GetVMIP(status) ==
  IF status.kind = "throw" THEN <<>>
  ELSE IF status.kind # "data" THEN <<>>
  ELSE FirstOfIfaces(status.ifaces, 1)

\* getVMIP has run with getVMStatus coming to status; nothing gets out of
\* the try of lines 413-434
Queried(status) ==
  [pc |-> "done", status |-> status, threw |-> FALSE,
   result |-> GetVMIP(status)]

\* getVMIP is called and getVMStatus throws or returns no agent data
CallGetVMIPNoData ==
  /\ ipq.pc = "idle"
  /\ \E k \in NoData : ipq' = Queried([kind |-> k, ifaces |-> <<>>])
  /\ UNCHANGED ipVars

\* getVMIP is called and getVMStatus returns the agent's network-interfaces
CallGetVMIP ==
  /\ ipq.pc = "idle"
  /\ \E n \in 0..MaxIfaces : \E ifs \in [1..n -> Interfaces] :
        ipq' = Queried([kind |-> "data", ifaces |-> ifs])
  /\ UNCHANGED ipVars

NextIp == CallGetVMIPNoData \/ CallGetVMIP

SpecIp == InitShared /\ [][NextIp]_vars

\* ============================================ executeScript by its steps
shVars == <<cfg, dbVars, call, queueVars, nextid, creates, startOk, vm, wt,
            pve, ipq, last>>

\* scriptType at the call sites: 'fault' (305, 421), 'check' (353)
ScriptTypes == {"fault", "check"}

\* what one runSSH comes to: it rejects, or resolves with the exit code of
\* the remote command
RunSSHOutcomes == {"throw", "0", "1"}

\* the states a session leaves behind in which scripts are executed: student
\* 1 has no VmAssignment yet, or has been provisioned on VM 1 with or without
\* an address; student 2 has not started
InitSh ==
  /\ cfg \in [sshKey : BOOLEAN, ipTemplate : {FALSE}]
  /\ \E row \in {NoAssignment,
                  [vmid |-> 1, vm_ip |-> AgentIp(1), snapshot_name |-> "clean_start"],
                  [vmid |-> 1, vm_ip |-> NoIp, snapshot_name |-> "clean_start"]} :
        /\ assignment = [s \in Students |-> IF s = 1 THEN row ELSE NoAssignment]
        /\ progress = [s \in Students |->
                         IF s = 1 /\ row # NoAssignment
                           THEN [current_qid |-> Questions[1].id, started |-> TRUE]
                           ELSE NoProgress]
        /\ nextid = IF row = NoAssignment THEN 1 ELSE 2
        /\ creates = [s \in Students |-> IF s = 1 /\ row # NoAssignment THEN 1 ELSE 0]
        /\ startOk = [s \in Students |-> s = 1 /\ row # NoAssignment]
        /\ vm = [v \in 1..MaxVms |->
                   IF v = 1 /\ row # NoAssignment
                     THEN [power |-> "running", snaps |-> 1, dirty |-> FALSE,
                           clones |-> 1]
                     ELSE NoVm]
  /\ attempts = <<>>
  /\ call = [c \in Slots |-> IdleCall]
  /\ queue = <<>>
  /\ running = 0
  /\ upc = "idle"
  /\ uvm = 0
  /\ uip = NoIp
  /\ wt = NoWait
  /\ pve = NoPve
  /\ ipq = NoQuery
  /\ sh = NoShell
  /\ last = IdleCall

\* execution e becomes rec
SetExec(e, rec) == sh' = [sh EXCEPT !.ex[e] = rec]

\* lines 74-76: thrown before the try, so it is not wrapped
Unavailable(rec) ==
  [rec EXCEPT !.pc = "done", !.result = "ConnectionUnavailable"]

\* a failure that hands back what the run step had come to
FailedPartial(rec, step) ==
  [rec EXCEPT !.pc = "done", !.threw = step, !.result = "returned",
              !.value = "1"]

\* lines 104-106: whatever is thrown inside the try is thrown again as
\* '腳本執行失敗: ' with the message of the error; step: where it came from
Failed(rec, step) ==
  [rec EXCEPT !.pc = "done", !.threw = step,
              !.result = "ScriptExecutionError"]

\* lines 96, 100: executeScript returns the runSSH result out
Returned(rec, out) ==
  [rec EXCEPT !.pc = "done", !.result = "returned", !.value = out]

\* the next remote command is sent
Issue(rec, cmd) == [rec EXCEPT !.pc = cmd, !.cmds = Append(@, cmd)]

\* lines 73-85, 97-102: executeScript is called for student s with the
\* connection getStudentVmConn resolved; with inline content it names the
\* temporary file after the script type and Date.now() and sends the write
\* command
ExecBegin(e, s, type, content, path) ==
  /\ sh.ex[e].pc = "idle"
  /\ e > 1 => sh.ex[e - 1].pc # "idle"
  /\ LET rec == [NoExec EXCEPT !.student = s, !.type = type,
                               !.content = content, !.path = path,
                               !.conn = GetStudentVmConn(s)]
     IN  SetExec(e,
           IF rec.conn = NoIp THEN Unavailable(rec)
           ELSE IF content
             THEN Issue([rec EXCEPT !.temp = <<type, sh.now>>], "write")
           ELSE IF path THEN Issue(rec, "runPath")
           ELSE Failed(rec, "noScript"))
  /\ UNCHANGED shVars

\* line 85: the write command ends; line 88: chmod is sent
SshWrite(e) ==
  /\ sh.ex[e].pc = "write"
  /\ \E out \in RunSSHOutcomes :
        SetExec(e, IF out = "throw" THEN Failed(sh.ex[e], "write")
                   ELSE Issue(sh.ex[e], "chmod"))
  /\ UNCHANGED shVars

\* line 88: chmod ends; line 91: the script is run
SshChmod(e) ==
  /\ sh.ex[e].pc = "chmod"
  /\ \E out \in RunSSHOutcomes :
        SetExec(e, IF out = "throw" THEN Failed(sh.ex[e], "chmod")
                   ELSE Issue(sh.ex[e], "run"))
  /\ UNCHANGED shVars

\* line 91: the run ends with result; line 94: rm -f is sent
SshRun(e) ==
  /\ sh.ex[e].pc = "run"
  /\ \E out \in RunSSHOutcomes :
        SetExec(e, IF out = "throw" THEN Failed(sh.ex[e], "run")
                   ELSE Issue([sh.ex[e] EXCEPT !.run = out], "rm"))
  /\ UNCHANGED shVars

\* a cleanup whose failure is thrown like any other
SshRmFatal(e) ==
  /\ sh.ex[e].pc = "rm"
  /\ \E out \in RunSSHOutcomes :
        SetExec(e, IF out = "throw" THEN Failed(sh.ex[e], "rm")
                   ELSE Returned(sh.ex[e], sh.ex[e].run))
  /\ UNCHANGED shVars

\* lines 94-96: rm -f ends, .catch(() => {}) drops its rejection; result is
\* returned
SshRm(e) ==
  /\ sh.ex[e].pc = "rm"
  /\ \E out \in RunSSHOutcomes :
        SetExec(e, Returned([sh.ex[e] EXCEPT
                               !.threw = IF out = "throw" THEN "rm" ELSE @],
                            sh.ex[e].run))
  /\ UNCHANGED shVars

\* lines 97-100: the script of scriptPath ends
SshRunPath(e) ==
  /\ sh.ex[e].pc = "runPath"
  /\ \E out \in RunSSHOutcomes :
        SetExec(e, IF out = "throw" THEN Failed(sh.ex[e], "runPath")
                   ELSE Returned(sh.ex[e], out))
  /\ UNCHANGED shVars

\* a millisecond goes by
Tick ==
  /\ sh.now < MaxClock
  /\ sh' = [sh EXCEPT !.now = @ + 1]
  /\ UNCHANGED shVars

NextSh ==
  \/ \E e \in 1..MaxExec, s \in Students, type \in ScriptTypes,
        content \in BOOLEAN, path \in BOOLEAN :
        ExecBegin(e, s, type, content, path)
  \/ \E e \in 1..MaxExec : SshWrite(e)
  \/ \E e \in 1..MaxExec : SshChmod(e)
  \/ \E e \in 1..MaxExec : SshRun(e)
  \/ \E e \in 1..MaxExec : SshRm(e)
  \/ \E e \in 1..MaxExec : SshRunPath(e)
  \/ Tick

SpecSh == InitSh /\ [][NextSh]_vars


\* ================================================================ claims
\* the row verify() appended in the step just taken
LastAttempt == attempts[Len(attempts)]

\* C1: a start() that is called after a start() of the same student has
\* returned success submits no provisioning unit (so it clones nothing, takes
\* no snapshot and inserts no row), and the student has a VmAssignment.
C1_SecondStartProvisionsNothing ==
  /\ \A c \in Slots :
       (call[c].op = "start" /\ call[c].afterOk) =>
          (call[c].enq = 0 /\ call[c].unit = "none" /\ running # c)
  /\ (last.op = "start" /\ last.afterOk) => (last.enq = 0 /\ last.unit = "none")
  /\ \A s \in Students : startOk[s] => (HasAssignment(s) /\ creates[s] >= 1)

C1_Witness ==
  last.op = "start" /\ last.afterOk /\ last.result = "ok"

\* C2: createVmAssignment is executed at most once per student in every
\* reachable state, overlapping start() calls of the student included.
C2_AtMostOneCreateVmAssignment ==
  \A s \in Students : creates[s] <= 1

\* C3: next() called while the latest Attempt of the current exercise is not
\* passed is rejected with an explicit error, submits no rollback and does not
\* change Progress, at every position of the list, the last one included.
C3_NextRejectedUnlessPassed ==
  (last.op = "next" /\ last.status # "passed") =>
     /\ last.result \in {"notStarted", "notPassed"}
     /\ last.enq = 0
     /\ last.wrote = NoQid

\* C4: a next() that answers success with done=false submitted exactly one
\* rollback unit, for the student's own vmid, and on return Progress.current
\* is the exercise right after the one that was current when it was called.
C4_NextAdvancesByOne ==
  (last.op = "next" /\ last.result = "ok") =>
     /\ last.enq = 1
     /\ last.vmid = assignment[last.student].vmid
     /\ last.snap = "clean_start"
     /\ last.ret = NextQuestion(last.cur)

\* C5: next() updates Progress only after its rollback unit has succeeded;
\* when the rollback fails it answers an error, has not updated Progress and
\* has injected no fault.
C5_ProgressOnlyAfterRollback ==
  /\ \A c \in Slots :
       (call[c].op = "next" /\ call[c].pc \in {"progress", "inject"}) =>
          call[c].unit = "ok"
  /\ \A c \in Slots :
       (call[c].op = "next" /\ call[c].unit # "ok") =>
          (call[c].wrote = NoQid /\ call[c].exec = "none")
  /\ (last.op = "next" /\ last.unit = "failed") =>
        (last.result = "error" /\ last.wrote = NoQid /\ last.exec = "none")
  /\ (last.op = "next" /\ last.wrote # NoQid) => last.unit = "ok"

C5_Witness ==
  last.op = "next" /\ last.unit = "failed" /\ last.result = "error"

\* C6: when no enabled exercise follows Progress.current, next() answers done
\* and has changed nothing: no unit submitted, no rollback, no script run,
\* Progress not written.
C6_DoneChangesNothing ==
  /\ (last.op = "next" /\ last.cur # NoQid /\ QuestionAt(FindIndex(last.cur) + 1) = NoQid)
        => last.result = "done"
  /\ (last.op = "next" /\ last.result = "done") =>
        /\ last.enq = 0 /\ last.unit = "none"
        /\ last.wrote = NoQid /\ last.ret = last.cur
        /\ last.exec = "none"
        /\ QuestionAt(FindIndex(last.cur) + 1) = NoQid

C6_Witness ==
  last.op = "next" /\ last.result = "done" /\ progress[last.student].started

\* C7: verify(exerciseId) with exerciseId different from Progress.current is
\* rejected and the check script of that exercise is not run.
C7_VerifyOfOtherExerciseRejected ==
  (last.op = "verify" /\ last.qid # last.cur) =>
     (last.result \notin {"ok", "error"} /\ last.exec = "none" /\ last.rec = 0)

\* C8: every verify() of an existing exercise appends exactly one Attempt of
\* (student, exercise) and answers with a result object; without a connection
\* or with a failing Executor the Attempt has passed=false.
C8_VerifyAlwaysRecords ==
  (last.op = "verify" /\ QuestionExists(last.qid)) =>
     /\ last.rec = 1
     /\ last.result \in {"ok", "error"}
     /\ Len(attempts) >= 1
     /\ LastAttempt.student = last.student
     /\ LastAttempt.qid = last.qid
     /\ (last.conn = NoIp \/ last.exec = "throw") => ~LastAttempt.passed

C8_Witness ==
  last.op = "verify" /\ last.exec = "throw" /\ last.rec = 1

\* a step of a verify() invocation: it starts, runs its check or answers
VerifyStep ==
  \/ last'.op = "verify"
  \/ \E c \in Slots :
       call'[c] # call[c] /\ "verify" \in {call[c].op, call'[c].op}

\* C9: no step of verify() changes Progress or the VmAssignment or adds a
\* unit to the Queue.
C9_VerifyFrame ==
  [][VerifyStep => UNCHANGED <<progress, assignment, queue, running>>]_vars

C9_Witness ==
  /\ last.op = "verify" /\ last.exec = "0"
  /\ progress[last.student].current_qid = last.qid

\* C10: the Attempt verify() records has passed=true exactly when the check
\* script was run on the student's VM and exited with code 0.
C10_PassedIffExitZero ==
  (last.op = "verify" /\ last.rec = 1) =>
     /\ LastAttempt.passed <=> last.exec = "0"
     /\ LastAttempt.passed =>
          (last.conn # NoIp /\ last.conn = assignment[last.student].vm_ip)

C10_Witness ==
  last.op = "verify" /\ last.rec = 1 /\ LastAttempt.passed

\* the calls whose hypervisor-mutating sequence is in flight
InFlight == {c \in Slots : call[c].unit = "running"}

\* C11: at most one hypervisor-mutating sequence is in flight at any time,
\* whatever the students and the interleaving: a provisioning or a rollback
\* sequence runs only as the one unit the queue is executing, and no vmid is
\* cloned to, powered on or snapshotted outside that unit.
C11_OneMutatingSequence ==
  /\ [](Cardinality(InFlight) <= 1)
  /\ [](\A c \in Slots : c \in InFlight <=> running = c)
  /\ [](upc # "idle" <=> running # 0)
  /\ [][(\E v \in 1..MaxVms : \/ vm'[v].power # vm[v].power
                               \/ vm'[v].snaps # vm[v].snaps)
          => (running # 0 /\ running' = running /\ InFlight = {running})]_vars

C11_Witness ==
  /\ running # 0 /\ upc = "rollback"
  /\ \E d \in Slots : call[d].unit = "pending" /\ call[d].student # call[running].student

\* C12: a unit starts only when every unit submitted before it has finished:
\* the units start in the order of their add() calls, one after the other.
C12_UnitsStartInSubmissionOrder ==
  \A c \in Slots : call[c].unit = "running" => call[c].before = {}

C12_Witness ==
  \E c, d \in Slots :
     /\ call[c].unit = "running" /\ call[d].unit = "pending"
     /\ call[d].before = {c}

\* the executing unit returns / throws in the step
UnitReturns ==
  UnitRollback \/ (UnitPersist /\ ~HasAssignment(call[running].student))
UnitThrows ==
  UnitFail \/ (UnitPersist /\ HasAssignment(call[running].student))

\* C13: the handler that submitted a unit resumes with that unit's own
\* outcome (it goes on when the unit returned, it answers the error when the
\* unit threw); the end of a unit, failed or not, settles no other handle,
\* leaves the backlog as it is, and every unit that waits stays in the backlog
\* until the queue starts it.
C13_OwnOutcomeOnly ==
  [][/\ UnitReturns => (call'[running].unit = "ok" /\ call'[running].pc = "progress")
     /\ UnitThrows => /\ last'.unit = "failed" /\ last'.result = "error"
                      /\ last'.op = call[running].op
                      /\ last'.student = call[running].student
                      /\ call'[running] = IdleCall
     /\ (running # 0 /\ running' = 0) => queue' = queue
     /\ \A c \in Slots :
          call[c].unit = "pending" =>
             /\ call'[c].unit \in {"pending", "running"}
             /\ call'[c].unit = "running" => (running = 0 /\ running' = c)
             /\ call'[c].unit = "pending" => \E i \in 1..Len(queue') : queue'[i] = c
    ]_vars

C13_Witness ==
  /\ last.unit = "failed" /\ last.result = "error"
  /\ \E d \in Slots : call[d].unit = "pending" /\ queue = <<d>>

\* C14: when every unit terminates, every unit that was submitted starts and
\* finishes, also after another unit has failed.
C14_EveryUnitFinishes ==
  \A c \in Slots :
     (call[c].unit = "pending") ~> (call[c].unit \in {"none", "ok"})

C14_Witness ==
  /\ last.unit = "failed" /\ last.student = 2
  /\ \E d \in Slots : call[d].unit = "pending" /\ call[d].student = 1

\* C15: waitForTask returns true exactly when one of its polls, all of them
\* sent before the budget had elapsed, observed the task stopped with
\* exitstatus OK; a poll that observes a running task or another exitstatus
\* never makes it return true.
C15_TrueIffStoppedOk ==
  /\ wt.result = "true" <=> "OK" \in wt.seen
  /\ wt.result = "true" => (wt.pc = "done" /\ "ERROR" \notin wt.seen)
  /\ wt.seen # {} => wt.made < timeout

C15_Witness ==
  wt.result = "true" /\ "running" \in wt.seen /\ wt.elapsed >= timeout

Snapshots(v) == vm'[v].snaps # vm[v].snaps

\* C17: every vmid gets at most one clean_start snapshot, taken by the
\* provisioning unit of a start() after the clone and the power-on of that
\* vmid returned; the VM of a student's assignment has exactly one, taken
\* before any fault script ran on it; no rollback of next() and no start()
\* that follows a successful one takes another.
C17_SnapshotOnce ==
  /\ [](\A v \in 1..MaxVms : vm[v].snaps <= 1)
  /\ [](\A s \in Students : HasAssignment(s) => vm[assignment[s].vmid].snaps = 1)
  /\ []((last.op \in {"start", "next"} /\ last.exec # "none") =>
          (last.conn # NoIp /\ vm[last.conn.vmid].snaps = 1))
  /\ [][\A v \in 1..MaxVms :
          Snapshots(v) =>
             /\ vm[v].power = "running" /\ vm[v].snaps = 0
             /\ vm'[v].snaps = 1
             /\ running # 0 /\ uvm = v
             /\ call[running].op = "start" /\ ~call[running].afterOk
             /\ \A s \in Students : assignment[s].vmid # v]_vars

C17_Witness ==
  /\ last.op = "next" /\ last.result = "ok" /\ last.exec = "0"
  /\ vm[last.conn.vmid].snaps = 1

\* C18: a start() or next() that got as far as the injection and could not
\* inject (no connection, or executeScript threw) answers ok with the warning
\* or the failure text in inject_output, has set Progress to its target
\* question with started = true, and raises no error.
C18_InjectionFailureIsSoft ==
  /\ (last.op \in {"start", "next"} /\ last.wrote # NoQid
         /\ (last.conn = NoIp \/ last.exec = "throw")) =>
        /\ last.result = "ok"
        /\ last.inject \in {"warning", "failed"}
        /\ last.inject = "warning" <=> last.conn = NoIp
        /\ last.wrote = last.qid
        /\ progress[last.student].started
  /\ \A c \in Slots :
       call[c].pc = "inject" =>
          (call[c].wrote = call[c].qid /\ progress[call[c].student].started)

C18_Witness ==
  /\ last.op = "next" /\ last.exec = "throw" /\ last.result = "ok"
  /\ progress[last.student].current_qid = last.qid

\* C19: without an IP template, a VM whose agent gave no address is
\* persisted with vm_ip = null; start() then answers ok and reports vm_ip =
\* null, an error of start() only ever comes from a failed unit, and every
\* start() or next() of the student resolves no connection, runs no remote
\* command and answers ok with the warning.
C19_NoIpIsSoft ==
  /\ \A s \in Students :
       (HasAssignment(s) /\ ~cfg.ipTemplate) =>
          assignment[s].vm_ip \in {NoIp, AgentIp(assignment[s].vmid)}
  /\ (upc = "persist" /\ ~cfg.ipTemplate) => uip \in {NoIp, AgentIp(uvm)}
  /\ (last.op = "start" /\ last.result = "error") => last.unit = "failed"
  /\ (last.op \in {"start", "next"} /\ last.wrote # NoQid
         /\ assignment[last.student].vm_ip = NoIp) =>
        /\ last.result = "ok"
        /\ last.conn = NoIp /\ last.exec = "none" /\ last.inject = "warning"
        /\ last.op = "start" => last.ip = NoIp

C19_Witness ==
  /\ last.op = "start" /\ last.unit = "ok" /\ last.result = "ok"
  /\ ~cfg.ipTemplate /\ cfg.sshKey
  /\ last.ip = NoIp /\ assignment[last.student].vm_ip = NoIp

\* C20: when start() answers ok, Progress.current is the first enabled
\* question and started = true, the fault it tried to inject is that
\* question's, and it wrote Progress only after its provisioning unit (when
\* it submitted one) had succeeded.
C20_StartSetsFirstQuestion ==
  (last.op = "start" /\ last.result = "ok") =>
     /\ progress[last.student] = [current_qid |-> QuestionAt(0), started |-> TRUE]
     /\ last.qid = QuestionAt(0) /\ last.wrote = QuestionAt(0)
     /\ last.enq = 1 => last.unit = "ok"

\* position of Progress.current of student s in the ordered list, -1 before
\* the first start()
Position(s) == FindIndex(progress[s].current_qid)

\* C21: Progress.current of a student only ever moves from nothing to the
\* first question and from a question to the one right after it: it never
\* moves back and never skips a question.
C21_ProgressMovesForward ==
  [][\A s \in Students :
        progress'[s] # progress[s] =>
           /\ progress'[s].started
           /\ FindIndex(progress'[s].current_qid) = Position(s) + 1]_vars

\* C22: whenever start() or next() runs a fault script on the student's VM,
\* no fault script has run on that VM since the clean_start snapshot was
\* taken or since the last rollback to it that returned.
C22_FaultOnCleanVm ==
  (last.op \in {"start", "next"} /\ last.exec \in {"0", "1"}) => last.clean

\* student s has a passed attempt for question q in the log
HasPassed(s, q) ==
  \E i \in 1..Len(attempts) :
     /\ attempts[i].student = s
     /\ attempts[i].qid = q
     /\ attempts[i].passed

\* C23: whenever Progress.current of a student moves from a question to a
\* later one, the log already holds a passed attempt of that student for the
\* question it leaves; the passed attempts of another student or for another
\* question do not let a student advance.
C23_AdvanceNeedsOwnPass ==
  [][\A s \in Students :
        (Position(s) >= 0 /\ FindIndex(progress'[s].current_qid) > Position(s))
           => HasPassed(s, progress[s].current_qid)]_vars

\* student 2 asked for the next question while student 1 had passed the
\* question student 2 is at: refused; and student 1 has advanced
C23_Witness ==
  /\ last.op = "next" /\ last.student = 2 /\ last.result = "notPassed"
  /\ progress[2].started
  /\ HasPassed(1, progress[2].current_qid)
  /\ ~HasPassed(2, progress[2].current_qid)
  /\ Position(1) > 0

\* the addresses a VM v may be recorded with: the one its guest agent
\* reports, else the template's when one is configured, else none
Resolvable(v) ==
  {AgentIp(v)} \cup (IF cfg.ipTemplate THEN {TemplateIp(v)} ELSE {NoIp})

\* C24: the provisioning unit goes clone, power on (and settle), resolve the
\* address, snapshot, persist, each step only after the one before it
\* returned: the VM is powered on only once cloned, the snapshot is taken of
\* the running VM once the address is resolved, and the row is written only
\* for a running VM with its snapshot. The address is the guest agent's when
\* it reports one, else the template's with the vmid, else none.
C24_ProvisioningInOrder ==
  /\ \A v \in 1..MaxVms :
        /\ vm[v].power # "absent" => v < nextid
        /\ vm[v].snaps >= 1 => vm[v].power = "running"
  /\ (running # 0 /\ call[running].op = "start") =>
        /\ upc \in {"nextid", "clone", "startVM", "getIP", "snapshot", "persist"}
        /\ upc = "nextid" => (uvm = 0 /\ uip = NoIp)
        /\ upc = "clone" =>
              (uvm # 0 /\ vm[uvm].power = "absent" /\ uip = NoIp)
        /\ upc = "startVM" =>
              (uvm # 0 /\ vm[uvm].power = "stopped" /\ vm[uvm].snaps = 0
                 /\ uip = NoIp)
        /\ upc = "getIP" =>
              /\ uvm # 0 /\ vm[uvm].power = "running" /\ vm[uvm].snaps = 0
              /\ uip = NoIp
              /\ ENABLED (UnitGetIP /\ uip' = AgentIp(uvm))
        /\ upc = "snapshot" =>
              (uvm # 0 /\ vm[uvm].power = "running" /\ vm[uvm].snaps = 0
                 /\ uip \in Resolvable(uvm))
        /\ upc = "persist" =>
              (uvm # 0 /\ vm[uvm].power = "running" /\ vm[uvm].snaps = 1
                 /\ uip \in Resolvable(uvm))
  /\ \A s \in Students :
        HasAssignment(s) =>
          /\ vm[assignment[s].vmid].power = "running"
          /\ vm[assignment[s].vmid].snaps = 1
          /\ assignment[s].vm_ip \in Resolvable(assignment[s].vmid)

\* with a template configured and a silent guest agent, the unit is about to
\* persist the template's address for the VM it cloned, started and snapshot
C24_Witness ==
  /\ running # 0 /\ call[running].op = "start" /\ upc = "persist"
  /\ cfg.ipTemplate /\ uip = TemplateIp(uvm)
  /\ vm[uvm].snaps = 1

\* C25: the attempt log only grows. Every step leaves it as it is or appends
\* one row at its end, the rows already there stay as they are, and the step
\* that appends is a verify() answering, for its own student and question.
C25_AttemptLogAppendOnly ==
  [][\/ attempts' = attempts
     \/ /\ Len(attempts') = Len(attempts) + 1
        /\ SubSeq(attempts', 1, Len(attempts)) = attempts
        /\ last'.op = "verify" /\ last'.rec = 1
        /\ attempts'[Len(attempts')].student = last'.student
        /\ attempts'[Len(attempts')].qid = last'.qid]_vars

\* a verify() has just added a second attempt of the same student for the
\* same question, with another verdict than the first, which is still there
C25_Witness ==
  /\ last.op = "verify" /\ last.rec = 1
  /\ Len(attempts) = 2
  /\ attempts[1].student = attempts[2].student
  /\ attempts[1].qid = attempts[2].qid
  /\ attempts[1].passed /\ ~attempts[2].passed

C27_NextBeforeStartRejected ==
  (last.op = "next" /\ ~last.started) =>
     /\ last.result = "notStarted"
     /\ last.enq = 0 /\ last.unit = "none"
     /\ \A k \in Mutating : last.sent[k] = 0
     /\ last.exec = "none" /\ last.rec = 0
     /\ last.wrote = NoQid
     /\ last.ret = last.cur

\* next() was refused as not started while the student's VM was already
\* assigned: the start() that provisioned it had not written Progress yet
C27_Witness ==
  /\ last.op = "next" /\ ~last.started /\ last.result = "notStarted"
  /\ HasAssignment(last.student)

\* the slots whose units wait in the queue
Queued == {queue[i] : i \in 1..Len(queue)}

\* C28: running a script is not a unit of the queue. A verify() never
\* submits a unit; a handler that is about to run its check or fault script
\* has no unit waiting or executing, and can run it in the state it is in,
\* whatever the queue holds and whatever unit of another student executes.
C28_ScriptsOffTheQueue ==
  /\ \A c \in Slots :
        /\ call[c].op = "verify" =>
              (call[c].enq = 0 /\ call[c].unit = "none" /\ c \notin Queued
                 /\ running # c)
        /\ call[c].pc \in {"check", "inject"} => (c \notin Queued /\ running # c)
        /\ (call[c].op = "verify" /\ call[c].pc = "check") => ENABLED VerifyRun(c)
        /\ (call[c].op = "start" /\ call[c].pc = "inject") => ENABLED StartInject(c)
        /\ (call[c].op = "next" /\ call[c].pc = "inject") => ENABLED NextInject(c)
  /\ last.op = "verify" => (last.enq = 0 /\ last.unit = "none")

\* a verify() of student 1 has just run its check script and answered
\* passed while the provisioning unit of student 2 executes, its clone
\* made and its snapshot not yet taken
C28_Witness ==
  /\ last.op = "verify" /\ last.student = 1 /\ last.exec = "0"
  /\ last.result = "ok"
  /\ running # 0 /\ call[running].student = 2
  /\ upc \in {"startVM", "getIP", "snapshot"}

\* the requests of call record rec are those of one pass through one unit
OnePass(rec) ==
  /\ rec.enq <= 1
  /\ \A k \in Mutating : rec.sent[k] <= 1
  /\ rec.sent["snapshot"] <= rec.sent["start"]
  /\ rec.sent["start"] <= rec.sent["clone"]
  /\ rec.op = "start" => rec.sent["rollback"] = 0
  /\ rec.op = "next" => rec.sent["clone"] = 0
  /\ rec.op \notin {"start", "next"} => \A k \in Mutating : rec.sent[k] = 0

\* C29: nothing is retried. A call submits at most one unit and the unit
\* sends each of its requests at most once, so a start() makes at most one
\* clone request and a next() at most one rollback request; when a request
\* or task of the unit fails the call answers with the error, having sent
\* nothing after the request that failed, written no Progress and run no
\* script.
C29_NoAutomaticRetry ==
  /\ \A c \in Slots : OnePass(call[c])
  /\ OnePass(last)
  /\ last.unit = "failed" =>
        /\ last.result = "error"
        /\ last.enq = 1
        /\ last.wrote = NoQid
        /\ last.exec = "none"

\* a start() has just answered with the error of its power-on task: its one
\* clone request was made, no snapshot was asked for, no row was written
C29_Witness ==
  /\ last.op = "start" /\ last.unit = "failed" /\ last.result = "error"
  /\ last.sent["clone"] = 1 /\ last.sent["start"] = 1
  /\ last.sent["snapshot"] = 0
  /\ ~HasAssignment(last.student)

\* the functions whose errors reach their caller: getVMIP and
\* checkPVEConnection catch them
Throwing == ClientOps \ {"ip", "check"}

\* C30: the credential is fixed when the client is loaded. With an API
\* token no ticket is ever asked for and every request carries the token
\* header. With a password every function holds, from its first statement
\* on, a ticket that was handed out to that call and to no other, and each
\* of its requests and task polls carries that ticket. With neither, no
\* request and no ticket exchange is ever sent and every function fails
\* with the authentication error.
C30_CredentialPerCall ==
  /\ USE_PVE_TOKEN =>
        /\ pve.exchanges = 0 /\ pve.tickets = 0 /\ pve.held = {}
        /\ \A r \in pve.sent : r.auth.header = "Authorization"
  /\ ~USE_PVE_TOKEN =>
        /\ \A r \in pve.sent :
              r.auth.header = "Cookie" /\ <<r.auth.ticket, r.op>> \in pve.held
        /\ \A g \in pve.held, h \in pve.held : g[1] = h[1] => g[2] = h[2]
        /\ \A i \in 1..Len(pve.stack) :
              pve.stack[i].pc \in {"child", "waitChild", "request", "poll"}
                 /\ pve.stack[i].op # "ip"
                 => <<pve.stack[i].ticket, pve.stack[i].id>> \in pve.held
  /\ (pve.loaded /\ ~USE_PVE_TOKEN /\ ~pve.password) =>
        /\ pve.sent = {} /\ pve.exchanges = 0
        /\ \A e \in pve.res : e[1] \in Throwing => e[2] = "authError"

\* with a password, a clone without a vmid has ended well: the next id was
\* asked for with a ticket of its own, the clone request and its task poll
\* went out with the ticket cloneVM got first
C30_Witness ==
  /\ ~USE_PVE_TOKEN /\ pve.password
  /\ <<"clone", "ok">> \in pve.res
  /\ \E r \in pve.sent, q \in pve.sent, n \in pve.sent :
        /\ r.kind = "clone" /\ q.kind = "task" /\ n.kind = "nextid"
        /\ r.op = q.op /\ r.auth = q.auth
        /\ n.auth.ticket > r.auth.ticket

\* the outcomes of destroyVM recorded so far
DestroyOutcomes == {e \in pve.res : e[1] = "destroy"}

\* C31: destroyVM calls stopVM before its own request, and sends the delete
\* request however stopVM ended: when the stop call ends, with its request
\* or its task failed or not, destroyVM goes on to the delete request and
\* no outcome of destroyVM is reported in that step; the outcome of
\* destroyVM is that of its own credential or of its delete request.
C31_DestroyAfterAnyStop ==
  /\ [](\A i \in 1..Len(pve.stack) :
          pve.stack[i].op = "destroy" =>
             /\ pve.stack[i].pc = "request" => pve.stack[i].child # "none"
             /\ pve.stack[i].pc = "waitChild" =>
                   (i < Len(pve.stack) /\ pve.stack[i + 1].op = "stop"))
  /\ [](\A r \in pve.sent : r.kind = "destroy" =>
          \E e \in pve.res : e[1] = "stop")
  /\ [][(Len(pve.stack) = 2 /\ pve.stack[1].op = "destroy"
           /\ Len(pve'.stack) # 2)
          => /\ Len(pve'.stack) = 1
             /\ pve'.stack[1].op = "destroy" /\ pve'.stack[1].pc = "request"
             /\ pve'.stack[1].child # "none"
             /\ DestroyOutcomes' = DestroyOutcomes]_vars
  /\ [](DestroyOutcomes \subseteq
          {<<"destroy", "ok">>, <<"destroy", "requestError">>,
           <<"destroy", "authError">>})

\* destroyVM has returned after the task of its stopVM had failed
C31_Witness ==
  /\ <<"destroy", "ok">> \in pve.res
  /\ <<"stop", "taskFailed">> \in pve.res
  /\ \E r \in pve.sent : r.kind = "destroy"

\* the places <<i, j>> of the addresses in the agent data that are ipv4 and
\* not 127. addresses
Places ==
  {p \in (1..MaxIfaces) \X (1..MaxAddrs) :
     /\ ipq.status.kind = "data"
     /\ p[1] <= Len(ipq.status.ifaces)
     /\ ipq.status.ifaces[p[1]].has
     /\ p[2] <= Len(ipq.status.ifaces[p[1]].addrs)
     /\ ipq.status.ifaces[p[1]].addrs[p[2]].type = "ipv4"
     /\ ipq.status.ifaces[p[1]].addrs[p[2]].addr[1] # 127}

\* place p comes before place q: interface order, then address order
Before(p, q) == p[1] < q[1] \/ (p[1] = q[1] /\ p[2] < q[2])

\* C32: getVMIP returns the first address, in interface order then address
\* order, that is ipv4 and does not start with 127.; it returns null when
\* the status query fails, when there is no agent data and when no address
\* qualifies; it never throws.
C32_FirstNonLoopbackIpv4 ==
  ipq.pc = "done" =>
     /\ ~ipq.threw
     /\ ipq.result = <<>> <=> Places = {}
     /\ ipq.result # <<>> =>
           \E p \in Places :
              /\ ipq.result = ipq.status.ifaces[p[1]].addrs[p[2]].addr
              /\ \A q \in Places : ~Before(q, p)

\* getVMIP returned the address that comes second on the second interface,
\* after an interface with a 127. address only and an ipv6 address
C32_Witness ==
  /\ ipq.pc = "done" /\ ipq.status.kind = "data"
  /\ Len(ipq.status.ifaces) = 2
  /\ ipq.status.ifaces[1].addrs = <<[type |-> "ipv4", addr |-> Loopback]>>
  /\ Len(ipq.status.ifaces[2].addrs) = 2
  /\ ipq.status.ifaces[2].addrs[1].type = "ipv6"
  /\ ipq.result = ipq.status.ifaces[2].addrs[2].addr
  /\ ipq.result # <<>>

\* the executions with inline content that got a connection
Inline == {e \in 1..MaxExec : sh.ex[e].content /\ sh.ex[e].conn # NoIp}

\* the commands of an inline execution, in order
InlineSteps == <<"write", "chmod", "run", "rm">>

\* C33: an inline execution sends write, chmod, run, rm in this order, each
\* only after the runSSH before it resolved; what it returns is what the run
\* step came to; a rejected rm changes neither that value nor the return.
C33_InlineStepsInOrder ==
  \A e \in Inline :
     /\ Len(sh.ex[e].cmds) \in 1..4
     /\ sh.ex[e].cmds = SubSeq(InlineSteps, 1, Len(sh.ex[e].cmds))
     /\ \A i \in 1..3 :
           sh.ex[e].threw = InlineSteps[i] => Len(sh.ex[e].cmds) = i
     /\ sh.ex[e].pc \in {"write", "chmod", "run", "rm"} =>
           (sh.ex[e].threw = "none" /\ sh.ex[e].pc = sh.ex[e].cmds[Len(sh.ex[e].cmds)])
     /\ sh.ex[e].result = "returned" =>
           /\ sh.ex[e].cmds = InlineSteps
           /\ sh.ex[e].run \in {"0", "1"}
           /\ sh.ex[e].value = sh.ex[e].run
     /\ sh.ex[e].threw = "rm" => sh.ex[e].result = "returned"
     /\ (sh.ex[e].pc = "done" /\ sh.ex[e].cmds = InlineSteps) =>
           sh.ex[e].result = "returned"

\* an inline execution returned exit code 1 of its run step although its
\* rm was rejected
C33_Witness ==
  \E e \in Inline :
     /\ sh.ex[e].threw = "rm"
     /\ sh.ex[e].result = "returned" /\ sh.ex[e].value = "1"

\* the executions that have been called
Called == {e \in 1..MaxExec : sh.ex[e].pc # "idle"}

\* C34: an execution has no connection exactly when its student has no
\* VmAssignment or no vm_ip or there is no SSH key; it then sends no command
\* and fails with ConnectionUnavailable; an execution whose write, chmod or
\* run was rejected fails with ScriptExecutionError and returns no value.
C34_ExecutorErrors ==
  \A e \in Called :
     /\ sh.ex[e].conn = NoIp <=>
           \/ assignment[sh.ex[e].student].vmid = 0
           \/ assignment[sh.ex[e].student].vm_ip = NoIp
           \/ ~cfg.sshKey
     /\ sh.ex[e].conn # NoIp =>
           sh.ex[e].conn = assignment[sh.ex[e].student].vm_ip
     /\ sh.ex[e].conn = NoIp =>
           /\ sh.ex[e].cmds = <<>>
           /\ sh.ex[e].pc = "done"
           /\ sh.ex[e].result = "ConnectionUnavailable"
           /\ sh.ex[e].value = "none"
     /\ sh.ex[e].result = "ConnectionUnavailable" => sh.ex[e].conn = NoIp
     /\ sh.ex[e].threw \in {"write", "chmod", "run", "runPath"} =>
           /\ sh.ex[e].pc = "done"
           /\ sh.ex[e].result = "ScriptExecutionError"
           /\ sh.ex[e].value = "none"

\* with an SSH key, an execution for the student without VmAssignment
\* failed for want of a connection and a rejected run made another fail
C34_Witness ==
  /\ cfg.sshKey
  /\ \E e \in Called :
        /\ assignment[sh.ex[e].student].vmid = 0
        /\ sh.ex[e].result = "ConnectionUnavailable"
  /\ \E e \in Called :
        sh.ex[e].threw = "run" /\ sh.ex[e].result = "ScriptExecutionError"

\* the inline executions that have named their file and not finished
Active == {e \in Inline : sh.ex[e].pc \in {"write", "chmod", "run", "rm"}}

\* C35: two inline executions under way on the same VM at the same time
\* never have the same temporary path.
C35_DistinctTempPaths ==
  \A e, f \in Active :
     (e # f /\ sh.ex[e].conn = sh.ex[f].conn) => sh.ex[e].temp # sh.ex[f].temp

\* C39: an inline execution that has finished after its write command
\* resolved has sent rm -f for its temporary path.
C39_DeleteAlwaysAttempted ==
  \A e \in Inline :
     (sh.ex[e].pc = "done" /\ Len(sh.ex[e].cmds) >= 2) =>
        sh.ex[e].cmds[Len(sh.ex[e].cmds)] = "rm"

\* C36: when the provisioning unit of a start() has failed, the start()
\* answers with the error, has written no Progress and run no fault script,
\* the student has no VmAssignment, and so their next start() provisions
\* again from the clone.
C36_FailedProvisioningLeavesNothing ==
  (last.op = "start" /\ last.unit = "failed") =>
     /\ last.result = "error"
     /\ last.wrote = NoQid
     /\ last.exec = "none"
     /\ ~HasAssignment(last.student)
     /\ NeedsProvision(last.student)

\* a rollback unit of VM v is executing
RollingBack(v) ==
  running # 0 /\ upc = "rollback" /\ call[running].vmid = v

\* C37: no fault script of a start() or next() runs on a VM while a rollback
\* of that VM is executing.
C37_NoFaultDuringRollback ==
  (last.op \in {"start", "next"} /\ last.exec \in {"0", "1"}) =>
     ~RollingBack(last.conn.vmid)

\* C38: every vmid is returned by cloneVM at most once: the id a unit was
\* given is still unused and still the next free one when its clone is made,
\* and the VmAssignments of different students name different VMs.
C38_DistinctCloneIds ==
  /\ \A v \in 1..MaxVms : vm[v].clones <= 1
  /\ (running # 0 /\ upc = "clone") =>
        (uvm = nextid /\ vm[uvm].power = "absent" /\ vm[uvm].clones = 0)
  /\ \A s1, s2 \in Students :
        (s1 # s2 /\ HasAssignment(s1) /\ HasAssignment(s2)) =>
           assignment[s1].vmid # assignment[s2].vmid

\* both students have been provisioned, while calls of both were in flight
C38_Witness ==
  /\ HasAssignment(1) /\ HasAssignment(2)
  /\ vm[1].clones = 1 /\ vm[2].clones = 1

\* C40: a student whose Progress says started has a VmAssignment, and no
\* next() answers that the VM is not assigned.
C40_StartedHasAssignment ==
  /\ \A s \in Students : progress[s].started => HasAssignment(s)
  /\ \A c \in Slots :
        (call[c].op = "next" /\ call[c].started) => call[c].result # "noVm"
  /\ last.op = "next" => last.result # "noVm"

\* a next() of a started student has just been let through to its rollback
C40_Witness ==
  \E c \in Slots :
     /\ call[c].op = "next" /\ call[c].started /\ call[c].pc = "waitUnit"
     /\ progress[call[c].student].started
     /\ HasAssignment(call[c].student)

====
